---- MODULE Spec2Model ----
(***************************************************************************)
(* The POST /listen webhook of routes/listen.js: endpoint validation,      *)
(* validation-token check of a batch, per-notification authentication     *)
(* (client state, subscription record), encrypted-content processing,     *)
(* resource enrichment and dispatch to the Socket.io room.                 *)
(*                                                                         *)
(* A JavaScript object is a set of <<key, value>> pairs where its content *)
(* is opaque to the handler, and a record where the handler reads fields. *)
(* An optional field carries a `present` flag; a JavaScript exception is  *)
(* a result record with ok = FALSE.                                        *)
(***************************************************************************)
EXTENDS Integers, Sequences, FiniteSets, TLC

\* ------------------------------------------------------------------ bounds
MaxValue == 2       \* most notifications in one batch (req.body.value)
MaxTokens == 2      \* most validation tokens in one batch
MaxPairValue == 1   \* most notifications of a batch handled beside another

\* ------------------------------------------------- process configuration
SUBSCRIPTION_CLIENT_STATE == "secretClientState"
PRIVATE_KEY_PATH == "privateKey"

\* ------------------------------------------------------------ collaborators
\* tokenHelper.isTokenValid: a boolean per token, never an exception.
isTokenValid(token) == token = "validJwt"

\* The subscription records the store holds when the requests arrive.
StoredSubscriptions ==
  { [subscriptionId |-> "sub1", userAccountId |-> "user1"],
    [subscriptionId |-> "sub2", userAccountId |-> "user2"] }

\* dbHelper.getSubscription: the records with that id (none: undefined).
getSubscription(store, subscriptionId) ==
  { s \in store : s.subscriptionId = subscriptionId }

\* The remote resource graph: the resources a GET can resolve.
RemoteGraph ==
  { [path |-> "/Users/user1/Events/e1",
     object |-> { <<"id", "e1">>, <<"subject", "Standup">>,
                  <<"bodyPreview", "agenda">> }] }

\* .select('subject,id'): the projection of an object on the named keys.
select(object, keys) == { kv \in object : kv[1] \in keys }

\* client.api(path).select('subject,id').get(): the projection of the
\* resource at path, or a rejection when the graph cannot resolve it.
graphGet(path) ==
  LET found == { r \in RemoteGraph : r.path = path }
  IN  IF found = {}
        THEN [ok |-> FALSE, value |-> {}]
        ELSE [ok |-> TRUE,
              value |-> select((CHOOSE r \in found : TRUE).object,
                               {"subject", "id"})]

\* certHelper.decryptSymmetricKey: unwraps the symmetric key with the
\* private key; a key wrapped for another key pair does not unwrap.
decryptSymmetricKey(dataKey, keyPath) ==
  [ok |-> dataKey.wrappedFor = keyPath, value |-> dataKey.key]

\* The keyed signature of data under key.
hmac(data, key) == [signedWith |-> key, over |-> data, flipped |-> FALSE]

\* certHelper.verifySignature: the signature is the one of data under key.
verifySignature(dataSignature, data, key) == dataSignature = hmac(data, key)

\* certHelper.decryptPayload: the plaintext of data, when data is a
\* well-formed ciphertext under key.
decryptPayload(data, key) ==
  [ok |-> data.wellFormed /\ data.cipherKey = key, value |-> data.plain]

\* JSON.parse on the plaintexts of the model: the parsed object, or a
\* SyntaxError.
JSONparse(text) ==
  CASE text = "{\"id\":\"m1\",\"body\":\"hi\"}" ->
         [ok |-> TRUE, value |-> { <<"id", "m1">>, <<"body", "hi">> }]
    [] text = "{}" -> [ok |-> TRUE, value |-> {}]
    [] OTHER -> [ok |-> FALSE, value |-> {}]

\* ------------------------------------------------------------------ inputs
SymmetricKey == "K"
ChatDocument == "{\"id\":\"m1\",\"body\":\"hi\"}"

WrappedKey(keyPath) == [wrappedFor |-> keyPath, key |-> SymmetricKey]
Cipher(plain, wellFormed) ==
  [cipherKey |-> SymmetricKey, plain |-> plain, wellFormed |-> wellFormed]

EncryptedContent(dataKey, data, flipped) ==
  [present |-> TRUE, dataKey |-> dataKey, data |-> data,
   dataSignature |-> [hmac(data, SymmetricKey) EXCEPT !.flipped = flipped]]

\* A notification without the encryptedContent field.
NoEncryptedContent ==
  [EncryptedContent(WrappedKey("none"), Cipher("", FALSE), TRUE)
     EXCEPT !.present = FALSE]

\* Well-formed content, a key wrapped for another key pair, a tampered
\* signature, a plaintext that is no JSON document, a malformed ciphertext.
EncGood == EncryptedContent(WrappedKey(PRIVATE_KEY_PATH), Cipher(ChatDocument, TRUE), FALSE)
EncBadKey == EncryptedContent(WrappedKey("otherKey"), Cipher(ChatDocument, TRUE), FALSE)
EncBadSignature == EncryptedContent(WrappedKey(PRIVATE_KEY_PATH), Cipher(ChatDocument, TRUE), TRUE)
EncNotJson == EncryptedContent(WrappedKey(PRIVATE_KEY_PATH), Cipher("<html>", TRUE), FALSE)
EncMalformed == EncryptedContent(WrappedKey(PRIVATE_KEY_PATH), Cipher(ChatDocument, FALSE), FALSE)

\* The part of a notification after its authentication fields.
PlainContents ==
  { [changeType |-> c, resource |-> r,
     resourceData |-> [id |-> "e1", odataType |-> "#Microsoft.Graph.Event"],
     encryptedContent |-> NoEncryptedContent] :
    <<c, r>> \in { <<"created", "Users/user1/Events/e1">>,
                   <<"created", "Users/user1/Events/gone">>,
                   <<"updated", "Users/user1/Events/e1">>,
                   <<"deleted", "Users/user1/Events/e1">> } }

EncryptedContents ==
  { [changeType |-> "created", resource |-> "chats/c1/messages/m1",
     resourceData |-> [id |-> "m1", odataType |-> "#Microsoft.Graph.chatMessage"],
     encryptedContent |-> e] :
    e \in {EncGood, EncBadKey, EncBadSignature, EncNotJson, EncMalformed} }

Notify(clientState, subscriptionId, content) ==
  [clientState |-> clientState, subscriptionId |-> subscriptionId,
   changeType |-> content.changeType, resource |-> content.resource,
   resourceData |-> content.resourceData,
   encryptedContent |-> content.encryptedContent]

\* Every content under the right client state and a stored subscription,
\* two of them also for the other stored subscription; under a wrong
\* client state or an unknown subscription, the contents that would be
\* dispatched, or would throw, if the notification were taken for
\* authentic.
Notifications ==
  { Notify(SUBSCRIPTION_CLIENT_STATE, "sub1", c) :
      c \in PlainContents \cup EncryptedContents }
  \cup
  { Notify(SUBSCRIPTION_CLIENT_STATE, "sub2", c) :
      c \in { k \in PlainContents \cup EncryptedContents :
                \/ k.changeType = "updated"
                \/ k.encryptedContent = EncGood } }
  \cup
  { Notify(a[1], a[2], c) :
      a \in { <<"wrongState", "sub1">>, <<SUBSCRIPTION_CLIENT_STATE, "sub9">> },
      c \in { k \in PlainContents \cup EncryptedContents :
                /\ k.resource # "Users/user1/Events/gone"
                /\ k.changeType # "deleted"
                /\ k.encryptedContent \in
                     {NoEncryptedContent, EncGood, EncNotJson} } }

SeqsUpTo(S, n) == UNION { [1..k -> S] : k \in 0..n }

\* The validationTokens field: absent, or a sequence of tokens.
ValidationTokens ==
  { [present |-> FALSE, items |-> <<>>] }
  \cup { [present |-> TRUE, items |-> t] :
           t \in SeqsUpTo({"validJwt", "forgedJwt"}, MaxTokens) }

NoQuery == [present |-> FALSE, value |-> ""]

\* Notification batches, and requests that carry a validationToken query
\* parameter (an endpoint validation, or an empty parameter).
Requests ==
  { [query |-> [validationToken |-> NoQuery],
     body |-> [validationTokens |-> t, value |-> v]] :
      t \in ValidationTokens, v \in SeqsUpTo(Notifications, MaxValue) }
  \cup
  { [query |-> [validationToken |-> [present |-> TRUE, value |-> q]],
     body |-> [validationTokens |-> [present |-> FALSE, items |-> <<>>],
               value |-> v]] :
      q \in {"challenge", ""},
      v \in SeqsUpTo({Notify(SUBSCRIPTION_CLIENT_STATE, "sub1", c) :
                        c \in { k \in PlainContents : k.changeType = "updated" }},
                     1) }

\* ------------------------------------------------- the handler's pieces
\* if (req.query && req.query.validationToken): the parameter is there
\* and is not the empty string.
IsValidationRequest(request) ==
  /\ request.query.validationToken.present
  /\ request.query.validationToken.value # ""

\* if (req.body.validationTokens): the field is there (an array, empty or
\* not, is truthy).
HasValidationTokens(request) == request.body.validationTokens.present

\* tokens.map(isTokenValid), awaited with Promise.all.
ValidationResults(tokens) == [k \in 1..Len(tokens) |-> isTokenValid(tokens[k])]

\* Mutant of ReduceAnd: the results are combined with || instead of &&.
MutReduceOr(validationResults) ==
  [ok |-> Len(validationResults) > 0,
   value |-> \E k \in 1..Len(validationResults) : validationResults[k]]

\* validationResults.reduce((x, y) => x && y): without an initial value,
\* reduce throws a TypeError on an empty array.
RECURSIVE Reduce(_, _)
Reduce(x, rest) ==
  IF rest = <<>> THEN x ELSE Reduce(x /\ Head(rest), Tail(rest))

ReduceAnd(validationResults) ==
  [ok |-> Len(validationResults) > 0,
   value |-> IF validationResults = <<>>
               THEN FALSE
               ELSE Reduce(Head(validationResults), Tail(validationResults))]

\* Mutant of ClientStateMatches: any client state that is there passes.
MutClientStateTruthy(notification) == notification.clientState # ""

\* notification.clientState == process.env.SUBSCRIPTION_CLIENT_STATE: the
\* environment's value is a string and so is the clientState of the data
\* model, and == on two strings is equality.
ClientStateMatches(notification) ==
  notification.clientState = SUBSCRIPTION_CLIENT_STATE

\* Mutant of SubscriptionFound: the lookup's result is not tested.
MutSubscriptionUntested(subscription) == TRUE

\* if (subscription): getSubscription returned a record.
SubscriptionFound(subscription) == subscription # {}

\* if (notification.encryptedContent)
HasEncryptedContent(notification) == notification.encryptedContent.present

\* Mutant of emitNotification: the room is named by the type of the event.
MutEmitToTypeRoom(subscriptionId, data) ==
  [room |-> data.type, event |-> "notification_received", data |-> data]

\* ioServer.to(subscriptionId).emit('notification_received', data)
emitNotification(subscriptionId, data) ==
  [room |-> subscriptionId, event |-> "notification_received", data |-> data]

\* A collaborator call: its name and the argument that identifies it.
Call(op, arg) == [op |-> op, arg |-> arg]

Outcome(calls, emits, thrown) ==
  [calls |-> calls, emits |-> emits, thrown |-> thrown]

\* Mutant of processEncryptedNotification: the payload is decrypted and
\* emitted whatever verifySignature returned.
MutProcessEncryptedUngated(notification) ==
  LET content == notification.encryptedContent
      symmetricKey == decryptSymmetricKey(content.dataKey, PRIVATE_KEY_PATH)
      decryptedPayload == decryptPayload(content.data, symmetricKey.value)
      parsed == JSONparse(decryptedPayload.value)
      unwrap == <<Call("decryptSymmetricKey", PRIVATE_KEY_PATH)>>
      verify == <<Call("verifySignature", symmetricKey.value)>>
      decrypt == <<Call("decryptPayload", symmetricKey.value)>>
  IN  IF ~symmetricKey.ok
        THEN Outcome(unwrap, <<>>, "KeyUnwrapError")
      ELSE IF ~decryptedPayload.ok
        THEN Outcome(unwrap \o verify \o decrypt, <<>>, "DecryptError")
      ELSE IF ~parsed.ok
        THEN Outcome(unwrap \o verify \o decrypt, <<>>, "SyntaxError")
      ELSE Outcome(unwrap \o verify \o decrypt,
                   << emitNotification(notification.subscriptionId,
                        [type |-> "chatMessage", resource |-> parsed.value]) >>,
                   "none")

\* Mutant of processEncryptedNotification: the event is tagged with the
\* @odata.type of resourceData, as processNotification tags its events.
MutProcessEncryptedOdataType(notification) ==
  LET content == notification.encryptedContent
      symmetricKey == decryptSymmetricKey(content.dataKey, PRIVATE_KEY_PATH)
      isSignatureValid ==
        verifySignature(content.dataSignature, content.data, symmetricKey.value)
      decryptedPayload == decryptPayload(content.data, symmetricKey.value)
      parsed == JSONparse(decryptedPayload.value)
      unwrap == <<Call("decryptSymmetricKey", PRIVATE_KEY_PATH)>>
      verify == <<Call("verifySignature", symmetricKey.value)>>
      decrypt == <<Call("decryptPayload", symmetricKey.value)>>
  IN  IF ~symmetricKey.ok
        THEN Outcome(unwrap, <<>>, "KeyUnwrapError")
      ELSE IF ~isSignatureValid
        THEN Outcome(unwrap \o verify, <<>>, "none")
      ELSE IF ~decryptedPayload.ok
        THEN Outcome(unwrap \o verify \o decrypt, <<>>, "DecryptError")
      ELSE IF ~parsed.ok
        THEN Outcome(unwrap \o verify \o decrypt, <<>>, "SyntaxError")
      ELSE Outcome(unwrap \o verify \o decrypt,
                   << emitNotification(notification.subscriptionId,
                        [type |-> notification.resourceData.odataType,
                         resource |-> parsed.value]) >>,
                   "none")

\* processEncryptedNotification: the certHelper calls it makes in order,
\* the events it emits, and the exception that leaves it ("none": returns).
processEncryptedNotification(notification) ==
  LET content == notification.encryptedContent
      symmetricKey == decryptSymmetricKey(content.dataKey, PRIVATE_KEY_PATH)
      isSignatureValid ==
        verifySignature(content.dataSignature, content.data, symmetricKey.value)
      decryptedPayload == decryptPayload(content.data, symmetricKey.value)
      parsed == JSONparse(decryptedPayload.value)
      unwrap == <<Call("decryptSymmetricKey", PRIVATE_KEY_PATH)>>
      verify == <<Call("verifySignature", symmetricKey.value)>>
      decrypt == <<Call("decryptPayload", symmetricKey.value)>>
  IN  IF ~symmetricKey.ok
        THEN Outcome(unwrap, <<>>, "KeyUnwrapError")
      ELSE IF ~isSignatureValid
        THEN Outcome(unwrap \o verify, <<>>, "none")
      ELSE IF ~decryptedPayload.ok
        THEN Outcome(unwrap \o verify \o decrypt, <<>>, "DecryptError")
      ELSE IF ~parsed.ok
        THEN Outcome(unwrap \o verify \o decrypt, <<>>, "SyntaxError")
      ELSE Outcome(unwrap \o verify \o decrypt,
                   << emitNotification(notification.subscriptionId,
                        [type |-> "chatMessage", resource |-> parsed.value]) >>,
                   "none")

\* processNotification up to its await: "created" === changeType starts
\* the fetch of `/${notification.resource}`.
NeedsFetch(notification) == notification.changeType = "created"
FetchPath(notification) == "/" \o notification.resource

\* Mutant of processNotificationOther: the generic event carries the
\* notification's own resourceData and type tag.
MutOtherEmitsResourceData(notification) ==
  Outcome(<<>>,
          << emitNotification(notification.subscriptionId,
               [type |-> notification.resourceData.odataType,
                resource |-> {<<"id", notification.resourceData.id>>}]) >>,
          "none")

\* processNotification for the other change types: the generic event.
processNotificationOther(notification) ==
  Outcome(<<>>,
          << emitNotification(notification.subscriptionId,
               [type |-> "event", resource |-> {}]) >>,
          "none")

\* Mutant of processNotificationFetched: without the return that ends the
\* created branch, the generic event follows the fetched one, and follows
\* the catch of a rejected fetch.
MutFetchedFallsThrough(notification, event) ==
  LET generic == emitNotification(notification.subscriptionId,
                                  [type |-> "event", resource |-> {}])
  IN  IF event.ok
        THEN Outcome(<<>>,
                     << emitNotification(notification.subscriptionId,
                          [type |-> notification.resourceData.odataType,
                           resource |-> event.value]),
                        generic >>,
                     "none")
        ELSE Outcome(<<>>, <<generic>>, "none")

\* Mutant of processNotificationFetched: the fetched resource is emitted
\* under the generic tag.
MutFetchedGenericType(notification, event) ==
  IF event.ok
    THEN Outcome(<<>>,
                 << emitNotification(notification.subscriptionId,
                      [type |-> "event", resource |-> event.value]) >>,
                 "none")
    ELSE Outcome(<<>>, <<>>, "none")

\* processNotification after the fetch settled: the event is emitted with
\* the resource's type tag; a rejected fetch is caught and logged.
processNotificationFetched(notification, event) ==
  IF event.ok
    THEN Outcome(<<>>,
                 << emitNotification(notification.subscriptionId,
                      [type |-> notification.resourceData.odataType,
                       resource |-> event.value]) >>,
                 "none")
    ELSE Outcome(<<>>, <<>>, "none")

\* What processing one notification that passed both gates does, fetch
\* included.
Process(notification) ==
  IF HasEncryptedContent(notification)
    THEN processEncryptedNotification(notification)
  ELSE IF NeedsFetch(notification)
    THEN processNotificationFetched(notification,
                                    graphGet(FetchPath(notification)))
  ELSE processNotificationOther(notification)

\* The loop of lines 43-65 over notifications that all pass both gates:
\* the events emitted in order, up to the first exception.
RECURSIVE ProcessAll(_)
ProcessAll(value) ==
  IF value = <<>>
    THEN [emits |-> <<>>, thrown |-> "none"]
    ELSE LET out == Process(Head(value))
             rest == ProcessAll(Tail(value))
         IN  IF out.thrown # "none"
               THEN [emits |-> out.emits, thrown |-> out.thrown]
               ELSE [emits |-> out.emits \o rest.emits, thrown |-> rest.thrown]

\* ------------------------------------------------------------------- state
VARIABLES
  req,             \* req[h]: the request handler invocation h received
  pc,              \* pc[h]: where invocation h stands
  areTokensValid,  \* areTokensValid[h]: the local of that name
  i,               \* i[h]: the loop index, 1-based
  response,        \* response[h]: what was sent on res
  thrown,          \* thrown[h]: the exception that rejected the handler
  emitted,         \* the events emitted on ioServer, in order, each tagged
                   \* with the invocation and notification that caused it
  calls,           \* the collaborator calls made, in order, tagged alike
  subscriptions    \* the subscription store

vars == <<req, pc, areTokensValid, i, response, thrown, emitted, calls,
          subscriptions>>

Handlers == DOMAIN req

NoResponse == [status |-> 0, contentType |-> "", body |-> ""]

Value(h) == req[h].body.value
Notification(h) == Value(h)[i[h]]

Tag(h, idx, items) == [k \in 1..Len(items) |-> [h |-> h, idx |-> idx, of |-> items[k]]]

\* Mutant of Publish: the events are put at the head of the log.
MutPublishFront(log, h, idx, items) == Tag(h, idx, items) \o log

\* Mutant of Publish: an event equal to one already emitted is dropped.
MutPublishOnce(log, h, idx, items) ==
  LET Emitted(e) == \E k \in 1..Len(log) : log[k].of = e
      New(e) == ~Emitted(e)
  IN  log \o Tag(h, idx, SelectSeq(items, New))

\* The log of ioServer after the events `items`, caused by notification idx
\* of invocation h, were emitted.
Publish(log, h, idx, items) == log \o Tag(h, idx, items)

\* A handler that throws rejects its promise; express-promise-router hands
\* the error to Express, which answers the request with the error status.
ErrorResponse == [status |-> 500, contentType |-> "", body |-> ""]

\* The handler returned or threw.
Terminated(h) == pc[h] \in {"done", "rejected"}

InitWith(requests) ==
  /\ req \in [{1} -> requests]
  /\ pc = [h \in {1} |-> "start"]
  /\ areTokensValid = [h \in {1} |-> TRUE]
  /\ i = [h \in {1} |-> 1]
  /\ response = [h \in {1} |-> NoResponse]
  /\ thrown = [h \in {1} |-> "none"]
  /\ emitted = <<>>
  /\ calls = <<>>
  /\ subscriptions = StoredSubscriptions

Init == InitWith(Requests)

\* Lines 20-24: the endpoint validation request is answered with the token.
ValidateEndpoint(h) ==
  /\ pc[h] = "start"
  /\ IsValidationRequest(req[h])
  /\ response' = [response EXCEPT ![h] =
       [status |-> 200, contentType |-> "text/plain",
        body |-> req[h].query.validationToken.value]]
  /\ pc' = [pc EXCEPT ![h] = "done"]
  /\ UNCHANGED <<req, areTokensValid, i, thrown, emitted, calls, subscriptions>>

\* Lines 29-37: a batch; with validation tokens, isTokenValid is called on
\* each and the handler awaits the results.
ReceiveBatch(h) ==
  /\ pc[h] = "start"
  /\ ~IsValidationRequest(req[h])
  /\ IF HasValidationTokens(req[h])
       THEN /\ pc' = [pc EXCEPT ![h] = "verify"]
            /\ calls' = calls \o
                 Tag(h, 0, [k \in 1..Len(req[h].body.validationTokens.items) |->
                              Call("isTokenValid",
                                   req[h].body.validationTokens.items[k])])
       ELSE /\ pc' = [pc EXCEPT ![h] = "loop"]
            /\ UNCHANGED calls
  /\ UNCHANGED <<req, areTokensValid, i, response, thrown, emitted, subscriptions>>

\* Mutant of VerifyTokens: areTokensValid is one variable of the module,
\* not a local of each invocation.
MutVerifyTokensShared(h) ==
  /\ pc[h] = "verify"
  /\ LET reduced == ReduceAnd(ValidationResults(req[h].body.validationTokens.items))
     IN  IF reduced.ok
           THEN /\ areTokensValid' = [g \in Handlers |-> reduced.value]
                /\ pc' = [pc EXCEPT ![h] = "loop"]
                /\ UNCHANGED <<thrown, response>>
           ELSE /\ thrown' = [thrown EXCEPT ![h] = "TypeError"]
                /\ pc' = [pc EXCEPT ![h] = "rejected"]
                /\ response' = [response EXCEPT ![h] = ErrorResponse]
                /\ UNCHANGED areTokensValid
  /\ UNCHANGED <<req, i, emitted, calls, subscriptions>>

\* Lines 33-40: the results are reduced to areTokensValid.
VerifyTokens(h) ==
  /\ pc[h] = "verify"
  /\ LET reduced == ReduceAnd(ValidationResults(req[h].body.validationTokens.items))
     IN  IF reduced.ok
           THEN /\ areTokensValid' = [areTokensValid EXCEPT ![h] = reduced.value]
                /\ pc' = [pc EXCEPT ![h] = "loop"]
                /\ UNCHANGED <<thrown, response>>
           ELSE /\ thrown' = [thrown EXCEPT ![h] = "TypeError"]
                /\ pc' = [pc EXCEPT ![h] = "rejected"]
                /\ response' = [response EXCEPT ![h] = ErrorResponse]
                /\ UNCHANGED areTokensValid
  /\ UNCHANGED <<req, i, emitted, calls, subscriptions>>

\* Mutant of Authenticate: the subscription is looked up before the client
\* state is compared.
MutAuthenticateLookupFirst(h) ==
  /\ pc[h] = "loop"
  /\ areTokensValid[h]
  /\ i[h] <= Len(Value(h))
  /\ calls' = calls \o
       Tag(h, i[h], <<Call("getSubscription", Notification(h).subscriptionId)>>)
  /\ IF ClientStateMatches(Notification(h))
       THEN /\ pc' = [pc EXCEPT ![h] = "lookup"]
            /\ UNCHANGED i
       ELSE /\ i' = [i EXCEPT ![h] = @ + 1]
            /\ UNCHANGED pc
  /\ UNCHANGED <<req, areTokensValid, response, thrown, emitted, subscriptions>>

\* Mutant of Authenticate: a notification whose client state does not
\* match ends the loop instead of being passed over.
MutAuthenticateBreak(h) ==
  /\ pc[h] = "loop"
  /\ areTokensValid[h]
  /\ i[h] <= Len(Value(h))
  /\ IF ClientStateMatches(Notification(h))
       THEN /\ pc' = [pc EXCEPT ![h] = "lookup"]
            /\ calls' = calls \o
                 Tag(h, i[h], <<Call("getSubscription",
                                     Notification(h).subscriptionId)>>)
            /\ UNCHANGED i
       ELSE /\ i' = [i EXCEPT ![h] = Len(Value(h)) + 1]
            /\ UNCHANGED <<pc, calls>>
  /\ UNCHANGED <<req, areTokensValid, response, thrown, emitted, subscriptions>>

\* Lines 42-51: the next notification; one whose client state matches has
\* its subscription looked up, any other is passed over.
Authenticate(h) ==
  /\ pc[h] = "loop"
  /\ areTokensValid[h]
  /\ i[h] <= Len(Value(h))
  /\ IF ClientStateMatches(Notification(h))
       THEN /\ pc' = [pc EXCEPT ![h] = "lookup"]
            /\ calls' = calls \o
                 Tag(h, i[h], <<Call("getSubscription",
                                     Notification(h).subscriptionId)>>)
            /\ UNCHANGED i
       ELSE /\ i' = [i EXCEPT ![h] = @ + 1]
            /\ UNCHANGED <<pc, calls>>
  /\ UNCHANGED <<req, areTokensValid, response, thrown, emitted, subscriptions>>

\* What a dispatched notification does up to its first await or its end.
Dispatch(notification) ==
  IF HasEncryptedContent(notification)
    THEN processEncryptedNotification(notification)
  ELSE IF NeedsFetch(notification)
    THEN Outcome(<<Call("graphGet", FetchPath(notification))>>, <<>>, "none")
  ELSE processNotificationOther(notification)

\* Lines 49-63: the lookup settled; with a record, the notification is
\* processed: encrypted content synchronously, plain content up to the
\* fetch of a created resource.
Lookup(h) ==
  /\ pc[h] = "lookup"
  /\ LET notification == Notification(h)
         subscription == getSubscription(subscriptions, notification.subscriptionId)
         out == IF SubscriptionFound(subscription)
                  THEN Dispatch(notification)
                  ELSE Outcome(<<>>, <<>>, "none")
         fetching == /\ SubscriptionFound(subscription)
                     /\ ~HasEncryptedContent(notification)
                     /\ NeedsFetch(notification)
     IN  /\ calls' = calls \o Tag(h, i[h], out.calls)
         /\ emitted' = Publish(emitted, h, i[h], out.emits)
         /\ thrown' = [thrown EXCEPT ![h] = out.thrown]
         /\ IF out.thrown # "none"
              THEN /\ pc' = [pc EXCEPT ![h] = "rejected"]
                   /\ response' = [response EXCEPT ![h] = ErrorResponse]
                   /\ UNCHANGED i
            ELSE IF fetching
              THEN pc' = [pc EXCEPT ![h] = "fetch"] /\ UNCHANGED <<i, response>>
            ELSE /\ pc' = [pc EXCEPT ![h] = "loop"]
                 /\ i' = [i EXCEPT ![h] = @ + 1]
                 /\ UNCHANGED response
  /\ UNCHANGED <<req, areTokensValid, subscriptions>>

\* Lines 126-144: the fetch settled.
Fetch(h) ==
  /\ pc[h] = "fetch"
  /\ LET notification == Notification(h)
         out == processNotificationFetched(notification,
                                           graphGet(FetchPath(notification)))
     IN  /\ emitted' = Publish(emitted, h, i[h], out.emits)
         /\ pc' = [pc EXCEPT ![h] = "loop"]
         /\ i' = [i EXCEPT ![h] = @ + 1]
  /\ UNCHANGED <<req, areTokensValid, response, thrown, calls, subscriptions>>

\* Mutant of Acknowledge: res.status(202).end() stands before the loop; the
\* handler returns when the loop is over.
MutAcknowledgeBeforeLoop(h) ==
  /\ pc[h] = "loop"
  /\ IF response[h] = NoResponse
       THEN /\ response' = [response EXCEPT ![h] =
                 [status |-> 202, contentType |-> "", body |-> ""]]
            /\ UNCHANGED pc
       ELSE /\ ~areTokensValid[h] \/ i[h] > Len(Value(h))
            /\ pc' = [pc EXCEPT ![h] = "done"]
            /\ UNCHANGED response
  /\ UNCHANGED <<req, areTokensValid, i, thrown, emitted, calls, subscriptions>>

\* Line 68: the batch is acknowledged.
Acknowledge(h) ==
  /\ pc[h] = "loop"
  /\ ~areTokensValid[h] \/ i[h] > Len(Value(h))
  /\ response' = [response EXCEPT ![h] =
       [status |-> 202, contentType |-> "", body |-> ""]]
  /\ pc' = [pc EXCEPT ![h] = "done"]
  /\ UNCHANGED <<req, areTokensValid, i, thrown, emitted, calls, subscriptions>>

Next ==
  \/ \E h \in Handlers : ValidateEndpoint(h)
  \/ \E h \in Handlers : ReceiveBatch(h)
  \/ \E h \in Handlers : VerifyTokens(h)
  \/ \E h \in Handlers : Authenticate(h)
  \/ \E h \in Handlers : Lookup(h)
  \/ \E h \in Handlers : Fetch(h)
  \/ \E h \in Handlers : Acknowledge(h)

Spec == Init /\ [][Next]_vars

\* ------------------------------------------------ two requests in flight
\* Two invocations of the handler on the one event loop: each runs from
\* await to await (isTokenValid, getSubscription, the Graph fetch), and
\* between two awaits of one the other may run.
PairNotifications ==
  { Notify(SUBSCRIPTION_CLIENT_STATE, "sub1", c) :
      c \in { k \in PlainContents :
                k.changeType = "created" /\ k.resource = "Users/user1/Events/e1" } }
  \cup
  { Notify(SUBSCRIPTION_CLIENT_STATE, "sub2", c) :
      c \in { k \in PlainContents : k.changeType = "updated" } }
  \cup
  { Notify(SUBSCRIPTION_CLIENT_STATE, "sub1", c) :
      c \in { k \in EncryptedContents : k.encryptedContent = EncNotJson } }
  \cup
  { Notify("wrongClientState", "sub1", c) :
      c \in { k \in PlainContents : k.changeType = "updated" } }

PairRequests ==
  { [query |-> [validationToken |-> NoQuery],
     body |-> [validationTokens |-> t, value |-> v]] :
      t \in { [present |-> FALSE, items |-> <<>>],
              [present |-> TRUE, items |-> <<"validJwt">>],
              [present |-> TRUE, items |-> <<"forgedJwt">>] },
      v \in SeqsUpTo(PairNotifications, MaxPairValue) }
  \cup
  { [query |-> [validationToken |-> [present |-> TRUE, value |-> "challenge"]],
     body |-> [validationTokens |-> [present |-> FALSE, items |-> <<>>],
               value |-> <<>>]] }

InitPair ==
  /\ req \in [{1, 2} -> PairRequests]
  /\ pc = [h \in {1, 2} |-> "start"]
  /\ areTokensValid = [h \in {1, 2} |-> TRUE]
  /\ i = [h \in {1, 2} |-> 1]
  /\ response = [h \in {1, 2} |-> NoResponse]
  /\ thrown = [h \in {1, 2} |-> "none"]
  /\ emitted = <<>>
  /\ calls = <<>>
  /\ subscriptions = StoredSubscriptions

SpecPair == InitPair /\ [][Next]_vars

\* The handler run from its first line to its last on one request with
\* nothing else running: the events it emits in order, the exception that
\* rejects it and the status the request is answered with.
PassesGates(notification) ==
  /\ ClientStateMatches(notification)
  /\ SubscriptionFound(getSubscription(StoredSubscriptions,
                                       notification.subscriptionId))

HandleAlone(request) ==
  LET tokens == request.body.validationTokens.items
      reduced == ReduceAnd(ValidationResults(tokens))
      out == ProcessAll(SelectSeq(request.body.value, PassesGates))
  IN  IF IsValidationRequest(request)
        THEN [emits |-> <<>>, thrown |-> "none", status |-> 200]
      ELSE IF HasValidationTokens(request) /\ ~reduced.ok
        THEN [emits |-> <<>>, thrown |-> "TypeError",
              status |-> ErrorResponse.status]
      ELSE IF HasValidationTokens(request) /\ ~reduced.value
        THEN [emits |-> <<>>, thrown |-> "none", status |-> 202]
      ELSE [emits |-> out.emits, thrown |-> out.thrown,
            status |-> IF out.thrown = "none"
                         THEN 202 ELSE ErrorResponse.status]

\* ------------------------------------------------------ claims' vocabulary
\* The request of h is a notification batch, not an endpoint validation.
IsBatch(h) ==
  ~(req[h].query.validationToken.present
      /\ req[h].query.validationToken.value # "")

\* The positions in `emitted` of the events notification idx of h caused.
EmittedFor(h, idx) ==
  { k \in 1..Len(emitted) : emitted[k].h = h /\ emitted[k].idx = idx }

EmittedBy(h) == { k \in 1..Len(emitted) : emitted[k].h = h }

\* The positions in `calls` of the calls of op made for notification idx.
CallsFor(h, idx, op) ==
  { k \in 1..Len(calls) :
      calls[k].h = h /\ calls[k].idx = idx /\ calls[k].of.op = op }

\* The loop of h is past notification idx.
Handled(h, idx) == idx < i[h]

HasStoredSubscription(n) ==
  \E s \in StoredSubscriptions : s.subscriptionId = n.subscriptionId

\* The notification passes both authentication gates.
Authentic(n) ==
  n.clientState = SUBSCRIPTION_CLIENT_STATE /\ HasStoredSubscription(n)

SignatureVerifies(n) ==
  /\ n.encryptedContent.dataKey.wrappedFor = PRIVATE_KEY_PATH
  /\ n.encryptedContent.dataSignature.flipped = FALSE

\* The encrypted notification's key does not unwrap, its ciphertext is
\* malformed, or its plaintext is no JSON document.
DecryptionFails(n) ==
  /\ n.encryptedContent.present
  /\ \/ n.encryptedContent.dataKey.wrappedFor # PRIVATE_KEY_PATH
     \/ ~n.encryptedContent.data.wellFormed
     \/ n.encryptedContent.data.plain # ChatDocument

FetchResolves(n) == \E r \in RemoteGraph : r.path = "/" \o n.resource

\* The pipeline of the specification dispatches this notification.
ShouldDispatch(n) ==
  /\ Authentic(n)
  /\ IF n.encryptedContent.present
       THEN SignatureVerifies(n) /\ ~DecryptionFails(n)
       ELSE n.changeType = "created" => FetchResolves(n)

Accepted(h) == pc[h] = "done" /\ response[h].status = 202

\* ------------------------------------------------------------------ claims
SomeTokenInvalid(h) ==
  /\ IsBatch(h)
  /\ req[h].body.validationTokens.present
  /\ \E k \in 1..Len(req[h].body.validationTokens.items) :
       req[h].body.validationTokens.items[k] # "validJwt"

\* C1: a batch whose validationTokens hold at least one token that fails
\* verification causes no emit at all, and the handler ends by sending 202.
C1_InvalidTokenSuppresses ==
  \A h \in Handlers :
    SomeTokenInvalid(h) =>
      /\ EmittedBy(h) = {}
      /\ pc[h] # "rejected"
      /\ pc[h] \notin {"lookup", "fetch"}
      /\ Terminated(h) => Accepted(h)

\* A batch of a valid and a forged token and a notification that would be
\* dispatched was acknowledged.
C1_Witness ==
  \E h \in Handlers :
    /\ SomeTokenInvalid(h)
    /\ \E k \in 1..Len(req[h].body.validationTokens.items) :
         req[h].body.validationTokens.items[k] = "validJwt"
    /\ \E idx \in 1..Len(Value(h)) : ShouldDispatch(Value(h)[idx])
    /\ Accepted(h)

\* C2: a notification whose clientState differs from the configured secret
\* causes no emit, whatever its other fields.
C2_ClientStateMismatchNoDispatch ==
  \A h \in Handlers : \A idx \in 1..Len(Value(h)) :
    Value(h)[idx].clientState # SUBSCRIPTION_CLIENT_STATE =>
      /\ EmittedFor(h, idx) = {}
      /\ CallsFor(h, idx, "getSubscription") = {}

\* The loop passed a notification of a stored subscription with the wrong
\* client state, in a batch that was not suppressed.
C2_Witness ==
  \E h \in Handlers : \E idx \in 1..Len(Value(h)) :
    /\ IsBatch(h) /\ areTokensValid[h] /\ Handled(h, idx)
    /\ Value(h)[idx].clientState # SUBSCRIPTION_CLIENT_STATE
    /\ HasStoredSubscription(Value(h)[idx])
    /\ Accepted(h)

\* C3: a notification whose subscriptionId has no record in the store
\* causes no emit, even with the right clientState.
C3_UnknownSubscriptionNoDispatch ==
  \A h \in Handlers : \A idx \in 1..Len(Value(h)) :
    ~(\E s \in subscriptions : s.subscriptionId = Value(h)[idx].subscriptionId) =>
      /\ EmittedFor(h, idx) = {}
      /\ \A op \in {"decryptSymmetricKey", "verifySignature", "decryptPayload",
                    "graphGet"} : CallsFor(h, idx, op) = {}

\* The store was asked for the subscription of a notification with the
\* right client state, and had none.
C3_Witness ==
  \E h \in Handlers : \E idx \in 1..Len(Value(h)) :
    /\ Handled(h, idx)
    /\ Value(h)[idx].clientState = SUBSCRIPTION_CLIENT_STATE
    /\ ~HasStoredSubscription(Value(h)[idx])
    /\ CallsFor(h, idx, "getSubscription") # {}
    /\ Accepted(h)

SignatureCheckFailed(h, idx) ==
  /\ CallsFor(h, idx, "verifySignature") # {}
  /\ Value(h)[idx].encryptedContent.dataSignature.flipped

\* C4: for an encrypted notification, verifySignature is called with the
\* unwrapped key before decryptPayload; when the signature does not verify,
\* decryptPayload is not called for it and nothing is emitted for it.
C4_VerifyBeforeDecrypt ==
  \A h \in Handlers : \A idx \in 1..Len(Value(h)) :
    /\ \A d \in CallsFor(h, idx, "decryptPayload") :
         \E v \in CallsFor(h, idx, "verifySignature") : v < d
    /\ \A v \in CallsFor(h, idx, "verifySignature") :
         calls[v].of.arg = Value(h)[idx].encryptedContent.dataKey.key
    /\ SignatureCheckFailed(h, idx) =>
         /\ CallsFor(h, idx, "decryptPayload") = {}
         /\ EmittedFor(h, idx) = {}

\* An authentic encrypted notification with a tampered signature was
\* processed.
C4_Witness ==
  \E h \in Handlers : \E idx \in 1..Len(Value(h)) :
    /\ Authentic(Value(h)[idx])
    /\ SignatureCheckFailed(h, idx)
    /\ Handled(h, idx)

\* C5: every request that is not an endpoint validation is answered with
\* 202: a handler that has ended has sent the acknowledgement.
C5_AlwaysAccepted ==
  \A h \in Handlers : IsBatch(h) /\ Terminated(h) => Accepted(h)

\* The batch passes token verification: no tokens, or tokens all valid.
TokensPass(h) ==
  /\ IsBatch(h)
  /\ req[h].body.validationTokens.present =>
       /\ Len(req[h].body.validationTokens.items) > 0
       /\ \A k \in 1..Len(req[h].body.validationTokens.items) :
            req[h].body.validationTokens.items[k] = "validJwt"

\* The encrypted notification's key unwraps, its signature verifies and its
\* ciphertext decrypts, to a plaintext that is no JSON document.
PayloadDoesNotParse(n) ==
  /\ n.encryptedContent.present
  /\ n.encryptedContent.dataKey.wrappedFor = PRIVATE_KEY_PATH
  /\ ~n.encryptedContent.dataSignature.flipped
  /\ n.encryptedContent.data.wellFormed
  /\ n.encryptedContent.data.plain # ChatDocument

\* C6: a decryption failure of one notification ends that notification
\* only: once the handler has ended, every later notification of the batch
\* was dispatched exactly when the pipeline dispatches it. Stated for the
\* failure the handler's own code raises, a decrypted payload that does
\* not parse.
C6_DecryptionFailureIsolated ==
  \A h \in Handlers :
    TokensPass(h) /\ Terminated(h) =>
      \A k \in 1..Len(Value(h)) : \A j \in (k + 1)..Len(Value(h)) :
        Authentic(Value(h)[k]) /\ PayloadDoesNotParse(Value(h)[k]) =>
          (ShouldDispatch(Value(h)[j]) <=> EmittedFor(h, j) # {})

CarriesNoTokens(h) ==
  /\ IsBatch(h)
  /\ \/ ~req[h].body.validationTokens.present
     \/ req[h].body.validationTokens.items = <<>>

\* C7: a batch without validation tokens (no field, or an empty sequence)
\* is not stopped by token verification: it is processed and acknowledged.
C7_NoTokensEntersProcessing ==
  \A h \in Handlers :
    CarriesNoTokens(h) =>
      /\ thrown[h] # "TypeError"
      /\ pc[h] \notin {"start", "verify"} => areTokensValid[h]
      /\ ( /\ Terminated(h)
           /\ \A k \in 1..Len(Value(h)) :
                ~(Authentic(Value(h)[k]) /\ DecryptionFails(Value(h)[k])) )
         => /\ Accepted(h)
            /\ \A j \in 1..Len(Value(h)) :
                 ShouldDispatch(Value(h)[j]) <=> EmittedFor(h, j) # {}

\* certHelper raises on none of the batch's encrypted notifications.
CertHelperSucceeds(h) ==
  \A k \in 1..Len(Value(h)) :
    Value(h)[k].encryptedContent.present =>
      /\ Value(h)[k].encryptedContent.dataKey.wrappedFor = PRIVATE_KEY_PATH
      /\ Value(h)[k].encryptedContent.data.wellFormed

FetchFailed(h, idx) ==
  /\ ~Value(h)[idx].encryptedContent.present
  /\ Value(h)[idx].changeType = "created"
  /\ CallsFor(h, idx, "graphGet") # {}
  /\ ~FetchResolves(Value(h)[idx])

\* C8: when the fetch for an authentic plain created notification fails,
\* nothing is emitted for it, the later notifications are processed and
\* the batch is acknowledged. Stated for batches on which certHelper does
\* not raise.
C8_FetchFailureAcknowledged ==
  \A h \in Handlers : \A idx \in 1..Len(Value(h)) :
    FetchFailed(h, idx) /\ CertHelperSucceeds(h) =>
      /\ EmittedFor(h, idx) = {}
      /\ Terminated(h) => Accepted(h) /\ i[h] = Len(Value(h)) + 1

\* The events invocation h emitted, in order.
EmittedSeq(h) ==
  LET Mine(e) == e.h = h
      mine == SelectSeq(emitted, Mine)
  IN  [k \in 1..Len(mine) |-> mine[k].of]

\* C9: in a batch mixing unauthenticated and authentic notifications, no
\* emit is for an unauthenticated one, and a handler that has ended has
\* emitted and answered exactly as the authentic notifications alone
\* make it: the unauthenticated ones neither add nor prevent a dispatch.
C9_OnlyAuthenticDispatched ==
  \A h \in Handlers :
    /\ \A idx \in 1..Len(Value(h)) :
         ~Authentic(Value(h)[idx]) => EmittedFor(h, idx) = {}
    /\ \A k \in EmittedBy(h) : emitted[k].idx \in 1..Len(Value(h))
    /\ TokensPass(h) /\ Terminated(h) =>
         LET alone == ProcessAll(SelectSeq(Value(h), Authentic))
         IN  /\ EmittedSeq(h) = alone.emits
             /\ thrown[h] = alone.thrown
             /\ Accepted(h) <=> alone.thrown = "none"

\* A batch of an unauthenticated notification followed by an authentic one
\* ended with one emit, for the second.
C9_Witness ==
  \E h \in Handlers :
    /\ Len(Value(h)) = 2
    /\ ~Authentic(Value(h)[1])
    /\ ShouldDispatch(Value(h)[2])
    /\ Accepted(h)
    /\ Cardinality(EmittedBy(h)) = 1
    /\ EmittedFor(h, 2) # {}

FetchSucceeded(h, idx) ==
  /\ ~Value(h)[idx].encryptedContent.present
  /\ Value(h)[idx].changeType = "created"
  /\ CallsFor(h, idx, "graphGet") # {}
  /\ FetchResolves(Value(h)[idx])
  /\ Handled(h, idx)

\* C10: an authentic plain created notification whose fetch succeeded was
\* emitted exactly once, with the type of its resourceData and the fetched
\* projection of its resource path.
C10_CreatedDispatchesProjection ==
  \A h \in Handlers : \A idx \in 1..Len(Value(h)) :
    FetchSucceeded(h, idx) =>
      /\ \A c \in CallsFor(h, idx, "graphGet") :
           calls[c].of.arg = "/" \o Value(h)[idx].resource
      /\ Cardinality(EmittedFor(h, idx)) = 1
      /\ \A k \in EmittedFor(h, idx) :
           /\ emitted[k].of.data.type = Value(h)[idx].resourceData.odataType
           /\ emitted[k].of.data.resource =
                { kv \in (CHOOSE r \in RemoteGraph :
                            r.path = "/" \o Value(h)[idx].resource).object :
                    kv[1] \in {"subject", "id"} }

\* The fetch of an authentic created notification succeeded.
C10_Witness ==
  \E h \in Handlers : \E idx \in 1..Len(Value(h)) :
    /\ Authentic(Value(h)[idx])
    /\ FetchSucceeded(h, idx)
    /\ EmittedFor(h, idx) # {}

\* Notification idx of h is plain, of a change type other than created,
\* passed both gates and was processed.
AuthenticatedOther(h, idx) ==
  /\ ~Value(h)[idx].encryptedContent.present
  /\ Value(h)[idx].changeType # "created"
  /\ Authentic(Value(h)[idx])
  /\ CallsFor(h, idx, "getSubscription") # {}
  /\ Handled(h, idx)

\* C11: an authenticated plain notification whose change type is not
\* created was emitted exactly once, under the type "event" and with an
\* empty resource, and no fetch was made for it.
C11_OtherDispatchesGeneric ==
  \A h \in Handlers : \A idx \in 1..Len(Value(h)) :
    AuthenticatedOther(h, idx) =>
      /\ Cardinality(EmittedFor(h, idx)) = 1
      /\ \A k \in EmittedFor(h, idx) :
           /\ emitted[k].of.data.type = "event"
           /\ emitted[k].of.data.resource = {}
      /\ CallsFor(h, idx, "graphGet") = {}

\* An updated and a deleted notification of one batch were both processed.
C11_Witness ==
  \E h \in Handlers : \E a, b \in 1..Len(Value(h)) :
    /\ AuthenticatedOther(h, a) /\ Value(h)[a].changeType = "updated"
    /\ AuthenticatedOther(h, b) /\ Value(h)[b].changeType = "deleted"
    /\ EmittedFor(h, a) # {} /\ EmittedFor(h, b) # {}

\* The key of the encrypted notification unwraps, its signature verifies,
\* its payload decrypts and the plaintext is a JSON document.
DecryptionSucceeds(n) ==
  LET content == n.encryptedContent
      symmetricKey == decryptSymmetricKey(content.dataKey, PRIVATE_KEY_PATH)
      decryptedPayload == decryptPayload(content.data, symmetricKey.value)
  IN  /\ content.present
      /\ symmetricKey.ok
      /\ verifySignature(content.dataSignature, content.data, symmetricKey.value)
      /\ decryptedPayload.ok
      /\ JSONparse(decryptedPayload.value).ok

\* Notification idx of h is encrypted, passed both gates and was processed
\* with every step of its decryption succeeding.
AuthenticatedDecrypted(h, idx) ==
  /\ DecryptionSucceeds(Value(h)[idx])
  /\ Authentic(Value(h)[idx])
  /\ CallsFor(h, idx, "getSubscription") # {}
  /\ Handled(h, idx)

\* C12: an authenticated encrypted notification whose key unwrap, signature
\* verification and payload decryption all succeeded was emitted exactly
\* once, under the type "chatMessage", with the resource being the parsed
\* plaintext obtained by decrypting its data with the unwrapped key.
C12_EncryptedDispatchesPlaintext ==
  \A h \in Handlers : \A idx \in 1..Len(Value(h)) :
    AuthenticatedDecrypted(h, idx) =>
      LET content == Value(h)[idx].encryptedContent
          symmetricKey == decryptSymmetricKey(content.dataKey, PRIVATE_KEY_PATH)
          plaintext == decryptPayload(content.data, symmetricKey.value)
      IN  /\ Cardinality(EmittedFor(h, idx)) = 1
          /\ \A k \in EmittedFor(h, idx) :
               /\ emitted[k].of.data.type = "chatMessage"
               /\ emitted[k].of.data.resource = JSONparse(plaintext.value).value
               /\ emitted[k].of.data.resource # {}

\* Two encrypted notifications of one batch, for different subscriptions,
\* were decrypted and emitted.
C12_Witness ==
  \E h \in Handlers : \E a, b \in 1..Len(Value(h)) :
    /\ AuthenticatedDecrypted(h, a) /\ AuthenticatedDecrypted(h, b)
    /\ Value(h)[a].subscriptionId # Value(h)[b].subscriptionId
    /\ EmittedFor(h, a) # {} /\ EmittedFor(h, b) # {}

\* The positions in `calls` of the collaborator calls invocation h made.
CallsBy(h) == { k \in 1..Len(calls) : calls[k].h = h }

\* C13: a request whose query string carries a validationToken parameter
\* is answered with a success status and that token as the body, and is
\* never handled as a batch: no collaborator is called and nothing is
\* emitted for it, whatever its body holds.
C13_ValidationRequestEchoed ==
  \A h \in Handlers :
    req[h].query.validationToken.present =>
      /\ CallsBy(h) = {}
      /\ EmittedBy(h) = {}
      /\ Terminated(h) =>
           /\ response[h].status \in 200..299
           /\ response[h].body = req[h].query.validationToken.value

\* C14: two handlings of one and the same batch, with the collaborators
\* answering alike, emit the same events, end alike and are answered
\* alike, and the subscription store is what it was before either ran.
C14_ReprocessingIdempotent ==
  /\ subscriptions = StoredSubscriptions
  /\ \A g, h \in Handlers :
       req[g] = req[h] /\ Terminated(g) /\ Terminated(h) =>
         /\ EmittedSeq(g) = EmittedSeq(h)
         /\ { emitted[k].of : k \in EmittedBy(g) } =
              { emitted[k].of : k \in EmittedBy(h) }
         /\ thrown[g] = thrown[h]
         /\ response[g] = response[h]

\* One batch was handled a second time after its first handling ended, and
\* each handling emitted an event.
C14_Witness ==
  /\ req[1] = req[2]
  /\ IsBatch(1)
  /\ Terminated(1) /\ Terminated(2)
  /\ EmittedBy(1) # {} /\ EmittedBy(2) # {}
  /\ \A a \in CallsBy(1) : \A b \in CallsBy(2) : a < b
  /\ \A a \in EmittedBy(1) : \A b \in EmittedBy(2) : a < b

\* C15: the events of one batch are emitted in the order of its
\* notifications: of two events of one invocation the earlier one is for
\* the notification that stands earlier in req.body.value, plain or
\* encrypted.
C15_DispatchInInputOrder ==
  \A h \in Handlers : \A a, b \in EmittedBy(h) :
    a < b => emitted[a].idx < emitted[b].idx

\* A fetched plain notification followed by an encrypted one: both were
\* emitted, the plain one first.
C15_Witness ==
  \E h \in Handlers :
    /\ Len(Value(h)) = 2
    /\ ~Value(h)[1].encryptedContent.present
    /\ Value(h)[1].changeType = "created"
    /\ Value(h)[2].encryptedContent.present
    /\ \E a \in EmittedFor(h, 1) : \E b \in EmittedFor(h, 2) : a < b

\* C16: every event is emitted, as notification_received, to the room
\* named by the subscriptionId of the notification that caused it.
C16_DispatchToSubscriptionRoom ==
  \A k \in 1..Len(emitted) :
    /\ emitted[k].idx \in 1..Len(Value(emitted[k].h))
    /\ emitted[k].of.room = Value(emitted[k].h)[emitted[k].idx].subscriptionId
    /\ emitted[k].of.event = "notification_received"

\* One batch caused events for two subscriptions, each in its own room.
C16_Witness ==
  \E a, b \in 1..Len(emitted) :
    /\ emitted[a].h = emitted[b].h
    /\ emitted[a].of.room = "sub1"
    /\ emitted[b].of.room = "sub2"
    /\ Value(emitted[a].h)[emitted[a].idx].subscriptionId = "sub1"
    /\ Value(emitted[b].h)[emitted[b].idx].subscriptionId = "sub2"

CollaboratorOps ==
  { "getSubscription", "graphGet", "decryptSymmetricKey", "verifySignature",
    "decryptPayload" }

\* C17: in one handling of a batch a notification causes at most one emit,
\* whether its fetch or its decryption failed or not; a batch never causes
\* more emits than it has notifications; and nothing is tried a second
\* time: each collaborator is called at most once for a notification.
C17_AtMostOneDispatch ==
  \A h \in Handlers :
    /\ \A idx \in 1..Len(Value(h)) :
         /\ Cardinality(EmittedFor(h, idx)) <= 1
         /\ \A op \in CollaboratorOps : Cardinality(CallsFor(h, idx, op)) <= 1
         /\ ~ShouldDispatch(Value(h)[idx]) => EmittedFor(h, idx) = {}
    /\ Cardinality(EmittedBy(h)) <= Len(Value(h))

\* A batch of a notification whose fetch failed and one whose fetch
\* succeeded was acknowledged after one fetch and at most one emit each.
C17_Witness ==
  \E h \in Handlers :
    /\ Len(Value(h)) = 2
    /\ FetchFailed(h, 1)
    /\ FetchSucceeded(h, 2)
    /\ Accepted(h)
    /\ Cardinality(CallsFor(h, 1, "graphGet")) = 1
    /\ EmittedFor(h, 1) = {}
    /\ Cardinality(EmittedFor(h, 2)) = 1

\* Call k was made for a notification after getSubscription had been
\* called for that notification.
AfterLookup(k) ==
  \E j \in 1..(k - 1) :
    /\ calls[j].h = calls[k].h
    /\ calls[j].idx = calls[k].idx
    /\ calls[j].of.op = "getSubscription"

\* C18: the gates are evaluated in order and short-circuit. The store is
\* looked up only for a notification whose clientState matched; the key
\* unwrap, the signature verification, the payload decryption and the
\* fetch are called only after the lookup of their notification returned a
\* record; and for a batch with an invalid token none of these is called.
C18_GatesShortCircuit ==
  /\ \A k \in 1..Len(calls) :
       LET h == calls[k].h
           idx == calls[k].idx
       IN  /\ calls[k].of.op = "getSubscription" =>
                /\ idx \in 1..Len(Value(h))
                /\ Value(h)[idx].clientState = SUBSCRIPTION_CLIENT_STATE
                /\ calls[k].of.arg = Value(h)[idx].subscriptionId
           /\ calls[k].of.op \in CollaboratorOps \ {"getSubscription"} =>
                /\ AfterLookup(k)
                /\ Authentic(Value(h)[idx])
  /\ \A h \in Handlers :
       SomeTokenInvalid(h) =>
         \A k \in CallsBy(h) : calls[k].of.op = "isTokenValid"

\* A handled batch of a notification with a wrong clientState, for which
\* nothing was called, and one of an unknown subscription, for which the
\* store was looked up and nothing more.
C18_Witness ==
  \E h \in Handlers :
    /\ Len(Value(h)) = 2
    /\ Terminated(h)
    /\ Value(h)[1].clientState # SUBSCRIPTION_CLIENT_STATE
    /\ HasStoredSubscription(Value(h)[1])
    /\ \A k \in CallsBy(h) : calls[k].idx # 1
    /\ ~HasStoredSubscription(Value(h)[2])
    /\ \E k \in CallsBy(h) : calls[k].idx = 2
    /\ \A k \in CallsBy(h) :
         calls[k].idx = 2 => calls[k].of.op = "getSubscription"
    /\ ~SomeTokenInvalid(h)

\* Invocation g made a collaborator call between two calls of h.
RanBetween(g, h) ==
  \E a, c \in CallsBy(h) : \E b \in CallsBy(g) : a < b /\ b < c

\* C19: of two batches handled at the same time, interleaved at their
\* awaits, each emits exactly the events it emits when handled alone, in
\* the same order, and ends and is answered as when handled alone: a
\* suppressed or a throwing batch takes no event from the other, and adds
\* or alters none.
C19_ConcurrentBatchesIndependent ==
  \A h \in Handlers :
    LET alone == HandleAlone(req[h])
        mine == EmittedSeq(h)
    IN  /\ Len(mine) <= Len(alone.emits)
        /\ mine = SubSeq(alone.emits, 1, Len(mine))
        /\ Terminated(h) =>
             /\ mine = alone.emits
             /\ thrown[h] = alone.thrown
             /\ response[h].status = alone.status

\* Two different batches ran interleaved, each making calls between calls
\* of the other; one was suppressed or threw, the other emitted its event
\* and was acknowledged.
C19_Witness ==
  \E g, h \in Handlers :
    /\ g # h
    /\ req[g] # req[h]
    /\ RanBetween(g, h)
    /\ Terminated(g) /\ Terminated(h)
    /\ SomeTokenInvalid(g) \/ thrown[g] # "none"
    /\ Accepted(h)
    /\ EmittedBy(g) = {}
    /\ EmittedBy(h) # {}

\* Invocation h has answered its request.
Responded(h) == response[h] # NoResponse

\* Every notification of the batch of h was handled: the loop is over, the
\* store was looked up for each notification whose clientState matched,
\* and each notification the pipeline dispatches was emitted.
AllHandled(h) ==
  /\ i[h] = Len(Value(h)) + 1
  /\ \A idx \in 1..Len(Value(h)) :
       /\ Value(h)[idx].clientState = SUBSCRIPTION_CLIENT_STATE =>
            CallsFor(h, idx, "getSubscription") # {}
       /\ ShouldDispatch(Value(h)[idx]) => EmittedFor(h, idx) # {}

\* C20: the 202 of a batch is sent only when every notification of the
\* batch has been handled; once a request is answered nothing more is
\* emitted and no collaborator is called for it; and a request is answered
\* exactly once: a handler that ended has answered, one that has not ended
\* has not, and an answer is never followed by a second one.
C20_AcknowledgedAfterHandling ==
  /\ [](\A h \in Handlers :
          /\ Responded(h) <=> Terminated(h)
          /\ Accepted(h) /\ TokensPass(h) => AllHandled(h))
  /\ [][\A h \in Handlers :
          Responded(h) =>
            /\ response'[h] = response[h]
            /\ \A k \in (Len(emitted) + 1)..Len(emitted') : emitted'[k].h # h
            /\ \A k \in (Len(calls) + 1)..Len(calls') : calls'[k].h # h]_vars

\* A batch of an encrypted notification, whose processing is not awaited,
\* and a fetched one was acknowledged with both events emitted.
C20_Witness ==
  \E h \in Handlers :
    /\ Len(Value(h)) = 2
    /\ Value(h)[1].encryptedContent.present
    /\ FetchSucceeded(h, 2)
    /\ EmittedFor(h, 1) # {}
    /\ EmittedFor(h, 2) # {}
    /\ Accepted(h)

====
